---- MODULE Spec2Model ----
(***************************************************************************)
(* Model of pkg/node/client.go: the node-side client that resolves the     *)
(* chain BucketAccessRequest -> BucketAccess -> Bucket -> Secret, parses   *)
(* the volume context, extracts a bucket's protocol payload and toggles a  *)
(* finalizer on a BucketAccess.                                            *)
(*                                                                         *)
(* The API server is the environment: every Get or Update the client       *)
(* issues is answered by one of the responses the clientset interfaces     *)
(* allow (an object, an error, or a nil object with a nil error).          *)
(***************************************************************************)
EXTENDS Integers, Sequences, FiniteSets, TLC

VARIABLES
    store,      \* the API server's objects: [bar, ba, br, b, secret], a set each
    pc,         \* position of the client: "idle", the lookup about to be issued, "done"
    op,         \* the operation called last
    args,       \* its arguments
    next,       \* namespace/name of the lookup about to be issued
    bar,        \* GetResources' local bar / getBAR's result
    ba,         \* named result ba / the grant the caller holds in memory
    bkt,        \* named result bkt
    br,         \* getBR's result
    secret,     \* named result secret
    err,        \* named result err
    calls,      \* the API calls issued by the operation, with their responses
    hist,       \* the last two finalizer calls on the held grant: what they found
    volCtx,     \* the volume context handed to parseVolumeContext
    parsed,     \* parseVolumeContext's result
    protoRet    \* getProtocol's result

vars == <<store, pc, op, args, next, bar, ba, bkt, br, secret, err, calls,
          hist, volCtx, parsed, protoRet>>

-----------------------------------------------------------------------------
(* Bounds *)

\* longest finalizer list a stored BucketAccess starts with, resolver runs
MaxInitFinalizers == 1
\* longest finalizer list a BucketAccess starts with, finalizer runs
MaxFinalizers == 2
\* number of distinct non-empty values a volume context entry may carry
MaxCtxValues == 2
\* number of distinct connection payloads per protocol variant
MaxPayloads == 2

-----------------------------------------------------------------------------
(* Constants of the source *)

podNameKey      == "csi.storage.k8s.io/pod.name"
podNamespaceKey == "csi.storage.k8s.io/pod.namespace"
barNameKey      == "bar-name"
barNamespaceKey == "bar-namespace"

\* a nil pointer, and a nil error
Nil   == [kind |-> "nil"]
NoErr == "nil"

Range(s) == {s[i] : i \in 1..Len(s)}

SeqsUpTo(S, n) == UNION {[1..k -> S] : k \in 0..n}

-----------------------------------------------------------------------------
(* The API server *)

Kinds == {"bar", "ba", "br", "b", "secret"}

\* the object stored under kind/ns/name, Nil when there is none
Lookup(st, kind, ns, name) ==
    LET m == {o \in st[kind] : o.ns = ns /\ o.name = name}
    IN  IF m = {} THEN Nil ELSE CHOOSE o \in m : TRUE

GetReq(kind, ns, name) == [verb |-> "get", kind |-> kind, ns |-> ns, name |-> name]

UpdateReq(obj) ==
    [verb |-> "update", kind |-> obj.kind, ns |-> obj.ns, name |-> obj.name, obj |-> obj]

\* what a Get may return: (obj, nil), (nil, err), or (nil, nil)
GetResponses(st, req) ==
    LET o == Lookup(st, req.kind, req.ns, req.name)
    IN  IF o = Nil
        THEN {[obj |-> Nil, err |-> "NotFound"], [obj |-> Nil, err |-> NoErr]}
        ELSE {[obj |-> o, err |-> NoErr], [obj |-> Nil, err |-> "Unavailable"],
              [obj |-> Nil, err |-> NoErr]}

\* what an Update may return
UpdateResponses(st, req) ==
    IF Lookup(st, req.kind, req.ns, req.name) = Nil
    THEN {[obj |-> Nil, err |-> "NotFound"]}
    ELSE {[obj |-> req.obj, err |-> NoErr], [obj |-> Nil, err |-> "Conflict"]}

\* the store after a call got its response: only a successful Update writes
Apply(st, req, resp) ==
    IF req.verb = "update" /\ resp.err = NoErr
    THEN [st EXCEPT ![req.kind] =
            {o \in @ : ~(o.ns = req.ns /\ o.name = req.name)} \cup {req.obj}]
    ELSE st

-----------------------------------------------------------------------------
(* The leaf lookups, each applied to the response of its Get *)

getBARReq(barName, barNs) == GetReq("bar", barNs, barName)

\* getBAR without the AccessGranted check
getBAR_NoGrantCheck(resp) ==
    IF resp.err # NoErr
    THEN [val |-> Nil, err |-> "get bucketAccessRequest failed"]
    ELSE IF resp.obj = Nil
    THEN [val |-> Nil, err |-> "bucketAccessRequest is nil"]
    ELSE IF resp.obj.bucketRequestName = ""
    THEN [val |-> Nil, err |-> "bucketAccessRequest.Spec.BucketRequestName unset"]
    ELSE IF resp.obj.bucketAccessName = ""
    THEN [val |-> Nil, err |-> "bucketAccessRequest.Spec.BucketAccessName unset"]
    ELSE [val |-> resp.obj, err |-> NoErr]

getBAR(resp) ==
    IF resp.err # NoErr
    THEN [val |-> Nil, err |-> "get bucketAccessRequest failed"]
    ELSE IF resp.obj = Nil
    THEN [val |-> Nil, err |-> "bucketAccessRequest is nil"]
    ELSE IF ~resp.obj.accessGranted
    THEN [val |-> Nil, err |-> "bucketAccessRequest does not grant access"]
    ELSE IF resp.obj.bucketRequestName = ""
    THEN [val |-> Nil, err |-> "bucketAccessRequest.Spec.BucketRequestName unset"]
    ELSE IF resp.obj.bucketAccessName = ""
    THEN [val |-> Nil, err |-> "bucketAccessRequest.Spec.BucketAccessName unset"]
    ELSE [val |-> resp.obj, err |-> NoErr]

getBAReq(baName) == GetReq("ba", "", baName)

\* getBA without the MintedSecretName check
getBA_NoSecretCheck(resp) ==
    IF resp.err # NoErr
    THEN [val |-> Nil, err |-> "get bucketAccess failed"]
    ELSE IF resp.obj = Nil
    THEN [val |-> Nil, err |-> "bucketAccess is nil"]
    ELSE IF ~resp.obj.accessGranted
    THEN [val |-> Nil, err |-> "bucketAccess does not grant access"]
    ELSE [val |-> resp.obj, err |-> NoErr]

getBA(resp) ==
    IF resp.err # NoErr
    THEN [val |-> Nil, err |-> "get bucketAccess failed"]
    ELSE IF resp.obj = Nil
    THEN [val |-> Nil, err |-> "bucketAccess is nil"]
    ELSE IF ~resp.obj.accessGranted
    THEN [val |-> Nil, err |-> "bucketAccess does not grant access"]
    ELSE IF resp.obj.mintedSecretName = ""
    THEN [val |-> Nil, err |-> "bucketAccess.Spec.MintedSecretName unset"]
    ELSE [val |-> resp.obj, err |-> NoErr]

getBRReq(brName, brNs) == GetReq("br", brNs, brName)

getBR(resp) ==
    IF resp.err # NoErr
    THEN [val |-> Nil, err |-> "get bucketRequest failed"]
    ELSE IF resp.obj = Nil
    THEN [val |-> Nil, err |-> "bucketRequest is nil"]
    ELSE IF ~resp.obj.bucketAvailable
    THEN [val |-> Nil, err |-> "bucketRequest is not available yet"]
    ELSE IF resp.obj.bucketName = ""
    THEN [val |-> Nil, err |-> "bucketRequest.Spec.BucketInstanceName unset"]
    ELSE [val |-> resp.obj, err |-> NoErr]

getBReq(bName) == GetReq("b", "", bName)

\* getB without the BucketAvailable check
getB_NoAvailableCheck(resp) ==
    IF resp.err # NoErr
    THEN [val |-> Nil, err |-> "get bucket failed"]
    ELSE IF resp.obj = Nil
    THEN [val |-> Nil, err |-> "bucket is nil"]
    ELSE [val |-> resp.obj, err |-> NoErr]

getB(resp) ==
    IF resp.err # NoErr
    THEN [val |-> Nil, err |-> "get bucket failed"]
    ELSE IF resp.obj = Nil
    THEN [val |-> Nil, err |-> "bucket is nil"]
    ELSE IF ~resp.obj.bucketAvailable
    THEN [val |-> Nil, err |-> "bucket is not available yet"]
    ELSE [val |-> resp.obj, err |-> NoErr]

\* GetResources' inline secret lookup: the Get's result and error, as they are
getSecretReq(name, ns) == GetReq("secret", ns, name)

getSecret(resp) == [val |-> resp.obj, err |-> resp.err]

-----------------------------------------------------------------------------
(* GetResources: the lookup that follows a successful one *)

\* namespace/name of the BucketAccess lookup, from the fetched request
baLookup(request) == [ns |-> "", name |-> request.bucketAccessName]

\* namespace/name of the Bucket lookup, from the fetched grant
bLookup(grant) == [ns |-> "", name |-> grant.bucketName]

\* namespace/name of the Secret lookup, from the fetched grant and barNs
\* the secret looked up cluster-wide instead of in barNs
secretLookup_NoNamespace(barNs, grant) == [ns |-> "", name |-> grant.mintedSecretName]

secretLookup(barNs, grant) == [ns |-> barNs, name |-> grant.mintedSecretName]

-----------------------------------------------------------------------------
(* controllerutil's finalizer helpers, on the in-memory grant *)

\* AddFinalizer that also resets the grant's status
AddFinalizer_ResetsStatus(grant, finalizer) ==
    IF finalizer \in Range(grant.finalizers)
    THEN grant
    ELSE [grant EXCEPT !.finalizers = Append(@, finalizer), !.accessGranted = FALSE]

AddFinalizer(grant, finalizer) ==
    IF finalizer \in Range(grant.finalizers)
    THEN grant
    ELSE [grant EXCEPT !.finalizers = Append(@, finalizer)]

\* RemoveFinalizer with the comparison inverted
RemoveFinalizer_Inverted(grant, finalizer) ==
    [grant EXCEPT !.finalizers = SelectSeq(@, LAMBDA e : e = finalizer)]

RemoveFinalizer(grant, finalizer) ==
    [grant EXCEPT !.finalizers = SelectSeq(@, LAMBDA e : e # finalizer)]

-----------------------------------------------------------------------------
(* parseVolumeContext *)

\* parseValue that takes an empty value for an unset key
parseValue_EmptyIsUnset(key, ctx) ==
    IF key \in DOMAIN ctx /\ ctx[key] # ""
    THEN [value |-> ctx[key], err |-> Nil]
    ELSE [value |-> "",
          err |-> [kind |-> "error", msg |-> "required volume context key unset", key |-> key]]

parseValue(key, ctx) ==
    IF key \in DOMAIN ctx
    THEN [value |-> ctx[key], err |-> Nil]
    ELSE [value |-> "",
          err |-> [kind |-> "error", msg |-> "required volume context key unset", key |-> key]]

parseFail(e, looked) ==
    [barname |-> "", barns |-> "", podname |-> "", podns |-> "", err |-> e,
     lookups |-> looked]

\* the result, with the keys handed to parseValue in order (lookups)
parseVolumeContext(ctx) ==
    LET r1 == parseValue(barNameKey, ctx)
        r2 == parseValue(barNamespaceKey, ctx)
        r3 == parseValue(podNameKey, ctx)
        r4 == parseValue(podNamespaceKey, ctx)
    IN  IF r1.err # Nil THEN parseFail(r1.err, <<barNameKey>>)
        ELSE IF r2.err # Nil THEN parseFail(r2.err, <<barNameKey, barNamespaceKey>>)
        ELSE IF r3.err # Nil
        THEN parseFail(r3.err, <<barNameKey, barNamespaceKey, podNameKey>>)
        ELSE IF r4.err # Nil
        THEN parseFail(r4.err, <<barNameKey, barNamespaceKey, podNameKey, podNamespaceKey>>)
        ELSE [barname |-> r1.value, barns |-> r2.value, podname |-> r3.value,
              podns |-> r4.value, err |-> Nil,
              lookups |-> <<barNameKey, barNamespaceKey, podNameKey, podNamespaceKey>>]

-----------------------------------------------------------------------------
(* getProtocol *)

\* json.Marshal of a protocol struct: its fields in declaration order
Marshal(p) ==
    CASE p.type = "S3Protocol" ->
            <<"{", "endpoint", p.endpoint, "bucketName", p.bucketName, "}">>
      [] p.type = "AzureProtocol" ->
            <<"{", "containerName", p.containerName, "storageAccount", p.storageAccount, "}">>
      [] p.type = "GCSProtocol" ->
            <<"{", "bucketName", p.bucketName, "projectID", p.projectID, "}">>

\* the switch of getProtocol: the variant it selects, Nil when none is set
\* the switch with its cases in the order GCS, AzureBlob, S3
protocolConnection_GCSFirst(protocol) ==
    IF protocol.GCS # Nil THEN protocol.GCS
    ELSE IF protocol.AzureBlob # Nil THEN protocol.AzureBlob
    ELSE IF protocol.S3 # Nil THEN protocol.S3
    ELSE Nil

protocolConnection(protocol) ==
    IF protocol.S3 # Nil THEN protocol.S3
    ELSE IF protocol.AzureBlob # Nil THEN protocol.AzureBlob
    ELSE IF protocol.GCS # Nil THEN protocol.GCS
    ELSE Nil

getProtocol(bucket) ==
    LET c == protocolConnection(bucket.protocol)
    IN  IF c = Nil
        THEN [data |-> <<>>, err |-> "unrecognized protocol, unable to extract connection data"]
        ELSE [data |-> Marshal(c), err |-> NoErr]

-----------------------------------------------------------------------------
(* Inputs *)

Namespaces == {"ns1", "ns2"}
BarNames   == {"bar1", "bar2"}
BaNames    == {"ba1", "ba2"}
BNames     == {"b1", "b2"}
BrNames    == {"br-ready", "br-pending", "br-unbound", "br-new", "br-missing"}
Markers    == {"f1", "f2"}

BARs ==
    [kind : {"bar"}, ns : {"ns1"}, name : {"bar1"}, accessGranted : BOOLEAN,
     bucketRequestName : {"", "br-ready"}, bucketAccessName : {"", "ba1"}]

BAs(n) ==
    [kind : {"ba"}, ns : {""}, name : {"ba1"}, accessGranted : BOOLEAN,
     bucketName : {"", "b1"}, mintedSecretName : {"", "s1"},
     finalizers : SeqsUpTo(Markers, n)]

\* the stored BucketRequests: one for each combination of the fields getBR reads
BR(name, available, bucketName) ==
    [kind |-> "br", ns |-> "ns1", name |-> name, bucketAvailable |-> available,
     bucketName |-> bucketName]

BRs ==
    {BR("br-ready", TRUE, "b1"), BR("br-pending", FALSE, "b1"),
     BR("br-unbound", TRUE, ""), BR("br-new", FALSE, "")}

PayloadNames == {ToString(i) : i \in 1..MaxPayloads}

S3Protocols ==
    [type : {"S3Protocol"}, endpoint : {"e1", "e2"}, bucketName : PayloadNames]
AzureProtocols ==
    [type : {"AzureProtocol"}, containerName : PayloadNames, storageAccount : {"a"}]
GCSProtocols ==
    [type : {"GCSProtocol"}, bucketName : PayloadNames, projectID : {"p"}]

Protocols ==
    [S3 : {Nil} \cup S3Protocols, AzureBlob : {Nil} \cup AzureProtocols,
     GCS : {Nil} \cup GCSProtocols]

S3Only == [S3 |-> [type |-> "S3Protocol", endpoint |-> "e1", bucketName |-> "1"],
           AzureBlob |-> Nil, GCS |-> Nil]

Bs(protocols) ==
    [kind : {"b"}, ns : {""}, name : {"b1"}, bucketAvailable : BOOLEAN,
     protocol : protocols]

Secrets ==
    {[kind |-> "secret", ns |-> "ns1", name |-> "s1", data |-> "d1"],
     [kind |-> "secret", ns |-> "ns2", name |-> "s1", data |-> "d2"]}

Stores(bas, bs) ==
    [bar : {{x} : x \in BARs}, ba : {{x} : x \in bas}, br : {BRs},
     b : {{x} : x \in bs}, secret : {Secrets}]

CtxValues == {""} \cup {ToString(i) : i \in 1..MaxCtxValues}
CtxKeys   == {barNameKey, barNamespaceKey, podNameKey, podNamespaceKey}
VolCtxs   == UNION {[D -> CtxValues] : D \in SUBSET CtxKeys}

-----------------------------------------------------------------------------
(* Initial states *)

Blank ==
    /\ pc = "idle" /\ op = "none" /\ args = Nil /\ next = Nil
    /\ bar = Nil /\ ba = Nil /\ br = Nil /\ secret = Nil
    /\ err = NoErr /\ calls = <<>> /\ hist = <<>>
    /\ parsed = Nil /\ protoRet = Nil

Init ==
    /\ store \in Stores(BAs(MaxInitFinalizers), Bs({S3Only}))
    /\ volCtx = <<>> /\ bkt = Nil
    /\ Blank

-----------------------------------------------------------------------------
(* Calls: an operation starts when the client is not inside another one *)

Free == pc \in {"idle", "done"}

Start(o, a, first, n) ==
    /\ Free
    /\ op' = o /\ args' = a /\ pc' = first /\ next' = n
    /\ bar' = Nil /\ ba' = Nil /\ bkt' = Nil /\ br' = Nil /\ secret' = Nil
    /\ err' = NoErr /\ calls' = <<>> /\ hist' = <<>>
    /\ UNCHANGED <<store, volCtx, parsed, protoRet>>

CallGetResources(barName, barNs) ==
    Start("GetResources", [barName |-> barName, barNs |-> barNs], "getBAR",
          [ns |-> barNs, name |-> barName])

CallGetBAR(barName, barNs) ==
    Start("getBAR", [barName |-> barName, barNs |-> barNs], "getBAR",
          [ns |-> barNs, name |-> barName])

CallGetBA(baName) ==
    Start("getBA", [baName |-> baName], "getBA", [ns |-> "", name |-> baName])

CallGetBR(brName, brNs) ==
    Start("getBR", [brName |-> brName, brNs |-> brNs], "getBR",
          [ns |-> brNs, name |-> brName])

CallGetB(bName) ==
    Start("getB", [bName |-> bName], "getB", [ns |-> "", name |-> bName])

-----------------------------------------------------------------------------
(* Lookups: one blocking Get each, then the checks on what it returned *)

\* where the operation goes after a lookup: GetResources goes on to `then'
\* when the lookup succeeded, everything else returns
After(r, then) == IF op = "GetResources" /\ r.err = NoErr THEN then ELSE "done"

Logged(req, resp) == Append(calls, [req |-> req, resp |-> resp])

DoGetBAR ==
    /\ pc = "getBAR"
    /\ LET req == getBARReq(next.name, next.ns)
       IN  \E resp \in GetResponses(store, req) :
             LET r == getBAR(resp)
             IN  /\ bar' = r.val /\ err' = r.err
                 /\ calls' = Logged(req, resp)
                 /\ store' = Apply(store, req, resp)
                 /\ pc' = After(r, "getBA")
                 /\ next' = IF After(r, "getBA") = "getBA" THEN baLookup(r.val) ELSE Nil
    /\ UNCHANGED <<op, args, ba, bkt, br, secret, hist, volCtx, parsed, protoRet>>

DoGetBA ==
    /\ pc = "getBA"
    /\ LET req == getBAReq(next.name)
       IN  \E resp \in GetResponses(store, req) :
             LET r == getBA(resp)
             IN  /\ ba' = r.val /\ err' = r.err
                 /\ calls' = Logged(req, resp)
                 /\ store' = Apply(store, req, resp)
                 /\ pc' = After(r, "getB")
                 /\ next' = IF After(r, "getB") = "getB" THEN bLookup(r.val) ELSE Nil
    /\ UNCHANGED <<op, args, bar, bkt, br, secret, hist, volCtx, parsed, protoRet>>

DoGetB ==
    /\ pc = "getB"
    /\ LET req == getBReq(next.name)
       IN  \E resp \in GetResponses(store, req) :
             LET r == getB(resp)
             IN  /\ bkt' = r.val /\ err' = r.err
                 /\ calls' = Logged(req, resp)
                 /\ store' = Apply(store, req, resp)
                 /\ pc' = After(r, "getSecret")
                 /\ next' = IF After(r, "getSecret") = "getSecret"
                            THEN secretLookup(args.barNs, ba) ELSE Nil
    /\ UNCHANGED <<op, args, bar, ba, br, secret, hist, volCtx, parsed, protoRet>>

DoGetSecret ==
    /\ pc = "getSecret"
    /\ LET req == getSecretReq(next.name, next.ns)
       IN  \E resp \in GetResponses(store, req) :
             LET r == getSecret(resp)
             IN  /\ secret' = r.val /\ err' = r.err
                 /\ calls' = Logged(req, resp)
                 /\ store' = Apply(store, req, resp)
                 /\ pc' = "done" /\ next' = Nil
    /\ UNCHANGED <<op, args, bar, ba, bkt, br, hist, volCtx, parsed, protoRet>>

DoGetBR ==
    /\ pc = "getBR"
    /\ LET req == getBRReq(next.name, next.ns)
       IN  \E resp \in GetResponses(store, req) :
             LET r == getBR(resp)
             IN  /\ br' = r.val /\ err' = r.err
                 /\ calls' = Logged(req, resp)
                 /\ store' = Apply(store, req, resp)
                 /\ pc' = "done" /\ next' = Nil
    /\ UNCHANGED <<op, args, bar, ba, bkt, secret, hist, volCtx, parsed, protoRet>>

-----------------------------------------------------------------------------
(* Finalizer toggle, on the grant the caller holds *)

HoldsGrant ==
    /\ pc = "done" /\ ba # Nil
    /\ \/ op \in {"GetResources", "getBA"} /\ err = NoErr
       \/ op \in {"addBAFinalizer", "removeBAFinalizer"}

LastTwo(h) == IF Len(h) > 2 THEN Tail(h) ELSE h

\* a toggle that skips the Update when the list did not change
Toggle_SkipsNoop(o, finalizer, grant) ==
    LET req == UpdateReq(grant)
    IN  \E resp \in UpdateResponses(store, req) :
          /\ ba' = grant
          /\ store' = IF grant = ba THEN store ELSE Apply(store, req, resp)
          /\ err' = IF grant = ba THEN NoErr ELSE resp.err
          /\ calls' = IF grant = ba THEN <<>> ELSE <<[req |-> req, resp |-> resp]>>
          /\ op' = o /\ args' = [BAFinalizer |-> finalizer]
          /\ hist' = LastTwo(Append(hist,
                [op |-> o, BAFinalizer |-> finalizer, before |-> ba.finalizers,
                 stored |-> Lookup(store, "ba", ba.ns, ba.name)]))
          /\ pc' = "done"
          /\ UNCHANGED <<next, bar, bkt, br, secret, volCtx, parsed, protoRet>>

Toggle(o, finalizer, grant) ==
    LET req == UpdateReq(grant)
    IN  \E resp \in UpdateResponses(store, req) :
          /\ ba' = grant
          /\ store' = Apply(store, req, resp)
          /\ err' = resp.err
          /\ calls' = <<[req |-> req, resp |-> resp]>>
          /\ op' = o /\ args' = [BAFinalizer |-> finalizer]
          /\ hist' = LastTwo(Append(hist,
                [op |-> o, BAFinalizer |-> finalizer, before |-> ba.finalizers,
                 stored |-> Lookup(store, "ba", ba.ns, ba.name)]))
          /\ pc' = "done"
          /\ UNCHANGED <<next, bar, bkt, br, secret, volCtx, parsed, protoRet>>

addBAFinalizer(BAFinalizer) ==
    /\ HoldsGrant
    /\ Toggle("addBAFinalizer", BAFinalizer, AddFinalizer(ba, BAFinalizer))

removeBAFinalizer(BAFinalizer) ==
    /\ HoldsGrant
    /\ Toggle("removeBAFinalizer", BAFinalizer, RemoveFinalizer(ba, BAFinalizer))

-----------------------------------------------------------------------------
(* The resolver and the finalizer toggle against one API server *)

Next ==
    \/ \E n \in BarNames, ns \in Namespaces : CallGetResources(n, ns)
    \/ \E n \in BarNames, ns \in Namespaces : CallGetBAR(n, ns)
    \/ \E n \in BaNames : CallGetBA(n)
    \/ \E n \in BrNames, ns \in Namespaces : CallGetBR(n, ns)
    \/ \E n \in BNames : CallGetB(n)
    \/ DoGetBAR
    \/ DoGetBA
    \/ DoGetB
    \/ DoGetSecret
    \/ DoGetBR
    \/ \E f \in Markers : addBAFinalizer(f)
    \/ \E f \in Markers : removeBAFinalizer(f)

Spec == Init /\ [][Next]_vars

-----------------------------------------------------------------------------
(* The finalizer toggle alone, from the state a successful getBA leaves *)

GoodBAR == [kind |-> "bar", ns |-> "ns1", name |-> "bar1", accessGranted |-> TRUE,
            bucketRequestName |-> "br-ready", bucketAccessName |-> "ba1"]
GoodB   == [kind |-> "b", ns |-> "", name |-> "b1", bucketAvailable |-> TRUE,
            protocol |-> S3Only]
GoodBA(fins) ==
    [kind |-> "ba", ns |-> "", name |-> "ba1", accessGranted |-> TRUE,
     bucketName |-> "b1", mintedSecretName |-> "s1", finalizers |-> fins]

GoodStore(grant) ==
    [bar |-> {GoodBAR}, ba |-> {grant}, br |-> BRs, b |-> {GoodB},
     secret |-> Secrets]

InitFin ==
    \E fins \in SeqsUpTo(Markers, MaxFinalizers) :
      /\ store = GoodStore(GoodBA(fins))
      /\ pc = "done" /\ op = "getBA" /\ args = [baName |-> "ba1"] /\ next = Nil
      /\ bar = Nil /\ ba = GoodBA(fins) /\ bkt = Nil /\ br = Nil /\ secret = Nil
      /\ err = NoErr
      /\ calls = <<[req |-> getBAReq("ba1"),
                    resp |-> [obj |-> GoodBA(fins), err |-> NoErr]]>>
      /\ hist = <<>> /\ volCtx = <<>> /\ parsed = Nil /\ protoRet = Nil

NextFin ==
    \/ \E f \in Markers : addBAFinalizer(f)
    \/ \E f \in Markers : removeBAFinalizer(f)

SpecFin == InitFin /\ [][NextFin]_vars

-----------------------------------------------------------------------------
(* parseVolumeContext applied to every volume context *)

ParseVolumeContext ==
    /\ pc = "idle"
    /\ parsed' = parseVolumeContext(volCtx)
    /\ op' = "parseVolumeContext" /\ pc' = "done"
    /\ UNCHANGED <<store, args, next, bar, ba, bkt, br, secret, err, calls, hist,
                   volCtx, protoRet>>

InitParse ==
    /\ store = GoodStore(GoodBA(<<>>))
    /\ volCtx \in VolCtxs /\ bkt = Nil
    /\ Blank

NextParse == ParseVolumeContext

SpecParse == InitParse /\ [][NextParse]_vars

-----------------------------------------------------------------------------
(* getProtocol applied to every bucket *)

GetProtocol ==
    /\ pc = "idle" /\ bkt # Nil
    /\ protoRet' = getProtocol(bkt)
    /\ op' = "getProtocol" /\ pc' = "done"
    /\ UNCHANGED <<store, args, next, bar, ba, bkt, br, secret, err, calls, hist,
                   volCtx, parsed>>

InitProtocol ==
    /\ bkt \in Bs(Protocols)
    /\ store = [GoodStore(GoodBA(<<>>)) EXCEPT !.b = {bkt}]
    /\ volCtx = <<>>
    /\ Blank

NextProtocol == GetProtocol

SpecProtocol == InitProtocol /\ [][NextProtocol]_vars

-----------------------------------------------------------------------------
(* Properties of GetResources *)

InGetResources == op = "GetResources"
Returned       == pc = "done"
Failed         == pc = "done" /\ err # NoErr
Succeeded      == pc = "done" /\ err = NoErr

NoGetOf(kinds) == \A i \in 1..Len(calls) : calls[i].req.kind \notin kinds

\* the i-th lookup of the call returned an object
Fetched(i) == Len(calls) >= i /\ calls[i].resp.err = NoErr /\ calls[i].resp.obj # Nil

BarRejected ==
    /\ InGetResources /\ Fetched(1)
    /\ \/ ~calls[1].resp.obj.accessGranted
       \/ calls[1].resp.obj.bucketRequestName = ""
       \/ calls[1].resp.obj.bucketAccessName = ""

\* C1: when the fetched BucketAccessRequest has AccessGranted false, or an empty
\* BucketRequestName or BucketAccessName, GetResources returns an error and
\* issues no Get for the BucketAccess, the Bucket or the Secret.
C1_BarRejectedStops ==
    BarRejected => Failed /\ NoGetOf({"ba", "b", "secret"})

C1_Witness ==
    /\ BarRejected /\ Returned
    /\ ~calls[1].resp.obj.accessGranted
    /\ calls[1].resp.obj.bucketAccessName # ""

BaRejected ==
    /\ InGetResources /\ Fetched(2)
    /\ \/ ~calls[2].resp.obj.accessGranted
       \/ calls[2].resp.obj.mintedSecretName = ""

\* C2: when the fetched BucketAccess has AccessGranted false or an empty
\* MintedSecretName, GetResources returns an error and issues no Get for the
\* Bucket or the Secret.
C2_BaRejectedStops ==
    BaRejected => Failed /\ NoGetOf({"b", "secret"})

C2_Witness ==
    /\ BaRejected /\ Returned
    /\ calls[2].resp.obj.accessGranted
    /\ calls[2].resp.obj.mintedSecretName = ""
    /\ calls[2].resp.obj.bucketName # ""

BucketRejected ==
    /\ InGetResources /\ Fetched(3)
    /\ ~calls[3].resp.obj.bucketAvailable

\* C3: when the fetched Bucket has BucketAvailable false, GetResources returns
\* an error and issues no Get for the Secret.
C3_BucketRejectedStops ==
    BucketRejected => Failed /\ NoGetOf({"secret"})

C3_Witness == BucketRejected /\ Returned

\* C4: whenever GetResources returns a nil error, the returned bucket, grant
\* and secret are all non-nil.
C4_SuccessMeansAllNonNil ==
    (InGetResources /\ Succeeded) => (bkt # Nil /\ ba # Nil /\ secret # Nil)

\* the requests GetResources is to issue, given the responses so far
ExpectedReq(i) ==
    CASE i = 1 -> GetReq("bar", args.barNs, args.barName)
      [] i = 2 -> GetReq("ba", "", calls[1].resp.obj.bucketAccessName)
      [] i = 3 -> GetReq("b", "", calls[2].resp.obj.bucketName)
      [] i = 4 -> GetReq("secret", args.barNs, calls[2].resp.obj.mintedSecretName)

Position ==
    CASE pc = "getBAR" -> 0 [] pc = "getBA" -> 1 [] pc = "getB" -> 2
      [] pc = "getSecret" -> 3 [] OTHER -> Len(calls)

\* C9: GetResources issues its Gets one at a time in the order request, grant,
\* bucket, secret, each named by the previous results and the secret in barNs;
\* a successful call issued all four and returns what they returned; a failed
\* call issued a prefix of them.
C9_FourGetsInOrder ==
    InGetResources =>
        /\ Len(calls) <= 4
        /\ Len(calls) = Position
        /\ \A i \in 1..Len(calls) : calls[i].req = ExpectedReq(i)
        /\ Succeeded =>
             /\ Len(calls) = 4
             /\ ba = calls[2].resp.obj
             /\ bkt = calls[3].resp.obj
             /\ secret = calls[4].resp.obj
        /\ Failed => Len(calls) \in 1..4

C9_Witness ==
    /\ InGetResources /\ Succeeded /\ Len(calls) = 4
    /\ secret # Nil /\ secret.ns = "ns1" /\ secret.name = ba.mintedSecretName

-----------------------------------------------------------------------------
(* Frame *)

LookupOps    == {"GetResources", "getBAR", "getBA", "getBR", "getB"}
FinalizerOps == {"addBAFinalizer", "removeBAFinalizer"}

Keys(objs) == {<<o.ns, o.name>> : o \in objs}

FrameStep ==
    /\ \A k \in Kinds \ {"ba"} : store'[k] = store[k]
    /\ Keys(store'.ba) = Keys(store.ba)
    /\ \A o \in store.ba :
         LET o2 == Lookup(store', "ba", o.ns, o.name)
         IN  o2 # o =>
               /\ op' \in FinalizerOps
               /\ ba'.ns = o.ns /\ ba'.name = o.name
               /\ [o2 EXCEPT !.finalizers = o.finalizers] = o
    /\ op' \in LookupOps =>
         /\ store' = store
         /\ \A i \in 1..Len(calls') : calls'[i].req.verb = "get"

\* C8: no step of the client creates or deletes a stored object or changes
\* anything but the finalizer list of the BucketAccess handed to
\* addBAFinalizer or removeBAFinalizer; the lookups issue only Gets and
\* leave the store as it is.
C8_Frame == [][FrameStep]_vars

C8_Witness ==
    /\ op = "addBAFinalizer" /\ err = NoErr /\ Len(hist) >= 1
    /\ hist[Len(hist)].stored.finalizers # ba.finalizers
    /\ Lookup(store, "ba", ba.ns, ba.name) = ba
    /\ bkt # Nil /\ secret # Nil

-----------------------------------------------------------------------------
(* Properties of the finalizer toggle *)

InToggle == op \in FinalizerOps /\ Len(hist) >= 1

Last == hist[Len(hist)]

AddThenRemove ==
    /\ Len(hist) = 2
    /\ hist[1].op = "addBAFinalizer" /\ hist[2].op = "removeBAFinalizer"
    /\ hist[1].BAFinalizer = hist[2].BAFinalizer

\* C7 as stated: addBAFinalizer then removeBAFinalizer with the same marker
\* leaves the grant's finalizer list as it was before the two calls.
C7_AddRemoveRestores ==
    AddThenRemove => ba.finalizers = hist[1].before

\* C7 as amended: the same, for a grant whose finalizer list did not hold the
\* marker before the two calls.
C7_AddRemoveRestoresIfAbsent ==
    (AddThenRemove /\ hist[1].BAFinalizer \notin Range(hist[1].before))
        => ba.finalizers = hist[1].before

C7_Witness ==
    /\ AddThenRemove /\ hist[1].BAFinalizer \notin Range(hist[1].before)
    /\ hist[1].before # <<>> /\ hist[2].before # hist[1].before

\* C10: each addBAFinalizer or removeBAFinalizer issues exactly one Update of
\* the grant, also when the list did not change, and returns that Update's
\* error; when the Update fails the stored grant is as before while the
\* in-memory grant carries the modified list.
C10_OneUpdate ==
    InToggle =>
        /\ Len(calls) = 1
        /\ calls[1].req = UpdateReq(ba)
        /\ err = calls[1].resp.err
        /\ op = "addBAFinalizer" => Last.BAFinalizer \in Range(ba.finalizers)
        /\ op = "removeBAFinalizer" => Last.BAFinalizer \notin Range(ba.finalizers)
        /\ err # NoErr => Lookup(store, "ba", ba.ns, ba.name) = Last.stored
        /\ err = NoErr => Lookup(store, "ba", ba.ns, ba.name) = ba

C10_Witness ==
    /\ InToggle /\ op = "addBAFinalizer" /\ err # NoErr
    /\ ba.finalizers # Last.before
    /\ Last.stored.finalizers = Last.before
    /\ Lookup(store, "ba", ba.ns, ba.name) = Last.stored

-----------------------------------------------------------------------------
(* Properties of parseVolumeContext *)

KeyOrder == <<barNameKey, barNamespaceKey, podNameKey, podNamespaceKey>>

Absent == {i \in 1..4 : KeyOrder[i] \notin DOMAIN volCtx}

FirstAbsent == CHOOSE i \in Absent : \A j \in Absent : i <= j

\* C5: with a required key absent, parseVolumeContext returns an error naming
\* the first absent key in the order bar-name, bar-namespace, pod.name,
\* pod.namespace, four empty strings, and looks up no later key; with all four
\* present, empty or not, it returns their values and no error.
C5_FirstAbsentKey ==
    op = "parseVolumeContext" =>
        IF Absent # {}
        THEN /\ parsed.err # Nil
             /\ parsed.err.key = KeyOrder[FirstAbsent]
             /\ parsed.barname = "" /\ parsed.barns = ""
             /\ parsed.podname = "" /\ parsed.podns = ""
             /\ parsed.lookups = SubSeq(KeyOrder, 1, FirstAbsent)
        ELSE /\ parsed.err = Nil
             /\ parsed.barname = volCtx[barNameKey]
             /\ parsed.barns = volCtx[barNamespaceKey]
             /\ parsed.podname = volCtx[podNameKey]
             /\ parsed.podns = volCtx[podNamespaceKey]

C5_Witness ==
    /\ op = "parseVolumeContext"
    /\ Absent = {2, 4}
    /\ parsed.err # Nil /\ parsed.err.key = barNamespaceKey

-----------------------------------------------------------------------------
(* Properties of getProtocol *)

\* C6: getProtocol returns the serialized payload of the first populated
\* variant in the order S3, AzureBlob, GCS, and fails exactly when none of the
\* three is populated.
C6_FirstPopulatedVariant ==
    op = "getProtocol" =>
        LET p == bkt.protocol
        IN  /\ protoRet.err # NoErr <=> (p.S3 = Nil /\ p.AzureBlob = Nil /\ p.GCS = Nil)
            /\ p.S3 # Nil => protoRet.data = Marshal(p.S3)
            /\ (p.S3 = Nil /\ p.AzureBlob # Nil) => protoRet.data = Marshal(p.AzureBlob)
            /\ (p.S3 = Nil /\ p.AzureBlob = Nil /\ p.GCS # Nil)
                  => protoRet.data = Marshal(p.GCS)

C6_Witness ==
    /\ op = "getProtocol" /\ protoRet.err = NoErr
    /\ bkt.protocol.S3 = Nil /\ bkt.protocol.AzureBlob # Nil /\ bkt.protocol.GCS # Nil
    /\ protoRet.data = Marshal(bkt.protocol.AzureBlob)

====
